---- MODULE Spec2Model ----
(***************************************************************************)
(* Image-analysis client of the VocabLens app (geminiService.ts): the      *)
(* rate limiter waitForRateLimit and the model-fallback loop analyzeImage. *)
(* Several analyzeImage invocations may be in flight at once: the service  *)
(* exports the function and holds no lock.  Time is the value of           *)
(* Date.now(), in milliseconds.                                            *)
(***************************************************************************)
EXTENDS Integers, Sequences, FiniteSets, TLC

\* ------------------------------------------------------------------------
\* Program constants
\* ------------------------------------------------------------------------
MIN_INTERVAL == 2000

MODELS_TO_TRY ==
    <<"gemini-1.5-flash", "gemini-1.5-flash-8b", "gemini-2.0-flash-exp">>

\* ------------------------------------------------------------------------
\* Bounds of the model
\* ------------------------------------------------------------------------
Epoch    == 4000     \* Date.now() when the module is loaded
TickMs   == 1000     \* granularity of the clock
Horizon  == 3000     \* the clock runs from Epoch to Epoch + Horizon

MaxTime == Epoch + Horizon

\* The invocations of analyzeImage that can be in flight together.  A slot
\* is used again once its invocation has settled, so the number of
\* invocations in a run is bounded by the clock, not by the slots.
Calls == {1, 2}

\* ------------------------------------------------------------------------
\* Values
\* ------------------------------------------------------------------------
Absent == "<undefined>"          \* a property the parsed object lacks
Words       == {"Apple", "Pear"}
Falsy       == {Absent, ""}           \* undefined and the empty string

\* The substrings the catch block looks for in error.message.
\*   nf   : "404" or "not found"
\*   rl   : "429"
\*   cred : "API_KEY" or "invalid"
Signals   == [nf : BOOLEAN, rl : BOOLEAN, cred : BOOLEAN]
NoSignals == [nf |-> FALSE, rl |-> FALSE, cred |-> FALSE]

NoObject == [word |-> Absent, meaning |-> Absent, type |-> Absent,
             sentence |-> Absent]
Apple    == [word |-> "Apple", meaning |-> "Qua tao", type |-> "noun",
             sentence |-> "I eat an apple every day"]
\* The objects a response can hold: complete ones, and ones with one
\* required field, or all of them, undefined or empty.
Objects  ==
    { [Apple EXCEPT !.word = w] : w \in Words \cup Falsy }
    \cup { [Apple EXCEPT !.word = w, !.meaning = f] : w \in Words, f \in Falsy }
    \cup { [Apple EXCEPT !.word = w, !.sentence = f] : w \in Words, f \in Falsy }
    \cup { [Apple EXCEPT !.type = Absent], NoObject }

\* What model.generateContent settles with.
\*   kind "error" : the promise rejects, with error.message carrying msg
\*                  and error.status = 429 iff status429
\*   kind "text"  : the promise resolves; the text is `body` inside a
\*                  fence; syntaxMsg is the message the engine's JSON.parse
\*                  gives if it rejects the text (it may quote the text or a
\*                  position in it, so it can carry any of the substrings)
Fences == {"none", "json", "bare", "JSON"}
Shapes == {"object", "null", "garbage"}

ErrorResponses ==
    { [kind |-> "error", msg |-> m, status429 |-> s, fence |-> "none",
       shape |-> "garbage", obj |-> NoObject, syntaxMsg |-> NoSignals] :
      m \in Signals, s \in BOOLEAN }

ObjectResponses ==
    { [kind |-> "text", msg |-> NoSignals, status429 |-> FALSE,
       fence |-> "none", shape |-> "object", obj |-> o,
       syntaxMsg |-> NoSignals] : o \in Objects }

FencedResponses ==
    { [kind |-> "text", msg |-> NoSignals, status429 |-> FALSE, fence |-> f,
       shape |-> "object", obj |-> Apple, syntaxMsg |-> NoSignals] :
      f \in Fences \ {"none"} }

NullResponses ==
    { [kind |-> "text", msg |-> NoSignals, status429 |-> FALSE, fence |-> f,
       shape |-> "null", obj |-> NoObject, syntaxMsg |-> NoSignals] :
      f \in {"none"} }

GarbageResponses ==
    { [kind |-> "text", msg |-> NoSignals, status429 |-> FALSE,
       fence |-> "none", shape |-> "garbage", obj |-> NoObject,
       syntaxMsg |-> m] : m \in Signals }

Responses == ErrorResponses \cup ObjectResponses \cup FencedResponses
                \cup NullResponses \cup GarbageResponses

\* ------------------------------------------------------------------------
\* Pure steps of analyzeImage
\* ------------------------------------------------------------------------
Errors     == [msg : Signals, status429 : BOOLEAN]
PlainError == [msg |-> NoSignals, status429 |-> FALSE]

\* text.replace(/```json\n?|\n?```/g, "").trim(): every ``` marker goes, and
\* the tag goes with it only when it is spelled "json"; what is left of
\* another tag stays in front of the body.
CleanText(r) ==
    [lead  |-> IF r.fence = "JSON" THEN "JSON" ELSE "",
     shape |-> r.shape,
     obj   |-> r.obj]

\* JSON.parse(cleanText): a SyntaxError unless the whole text is one JSON
\* value; the value is null or an object.
JSONParse(c) ==
    IF c.lead # "" \/ c.shape = "garbage"
    THEN [threw |-> TRUE,  isNull |-> FALSE, obj |-> NoObject]
    ELSE [threw |-> FALSE, isNull |-> c.shape = "null",
          obj   |-> IF c.shape = "null" THEN NoObject ELSE c.obj]

\* JavaScript truthiness of a string-or-undefined property.
Truthy(v) == v # Absent /\ v # ""

\* Variants of the validity test, for checking that the properties depend
\* on it: one that also demands `type`, one that accepts any one field.
IsValidWithType(o) ==
    Truthy(o.word) /\ Truthy(o.meaning) /\ Truthy(o.sentence) /\ Truthy(o.type)
IsValidAnyField(o) == Truthy(o.word) \/ Truthy(o.meaning) \/ Truthy(o.sentence)

\* parsed.word && parsed.meaning && parsed.sentence
IsValid(o) == Truthy(o.word) /\ Truthy(o.meaning) /\ Truthy(o.sentence)

\* The try block of one loop iteration, given what generateContent settled
\* with: either `return parsed`, or an error for the catch block.
\*   a rejected call            -> the provider's error
\*   JSON.parse throws          -> SyntaxError with the engine's message
\*   parsed is null             -> TypeError reading parsed.word
\*   a required field is falsy  -> Error("Invalid response structure")
TryBlock(r) ==
    IF r.kind = "error"
    THEN [returns |-> FALSE, value |-> NoObject,
          error |-> [msg |-> r.msg, status429 |-> r.status429]]
    ELSE LET p == JSONParse(CleanText(r)) IN
         IF p.threw
         THEN [returns |-> FALSE, value |-> NoObject,
               error |-> [msg |-> r.syntaxMsg, status429 |-> FALSE]]
         ELSE IF p.isNull
         THEN [returns |-> FALSE, value |-> NoObject, error |-> PlainError]
         ELSE IF IsValid(p.obj)
         THEN [returns |-> TRUE, value |-> p.obj, error |-> PlainError]
         ELSE [returns |-> FALSE, value |-> NoObject, error |-> PlainError]

\* A variant that rethrows what it cannot classify, as testAPIConnection
\* does.
ClassifyRethrow(e) ==
    IF e.msg.nf THEN "continue"
    ELSE IF e.msg.rl \/ e.status429 THEN "RATE_LIMIT_EXCEEDED"
    ELSE IF e.msg.cred THEN "INVALID_API_KEY"
    ELSE "UNCLASSIFIED"

\* A variant that tests for the rate limit before it tests for not-found.
ClassifyRateFirst(e) ==
    IF e.msg.rl \/ e.status429 THEN "RATE_LIMIT_EXCEEDED"
    ELSE IF e.msg.nf THEN "continue"
    ELSE IF e.msg.cred THEN "INVALID_API_KEY"
    ELSE "continue"

\* The catch block: first matching test wins.
Classify(e) ==
    IF e.msg.nf THEN "continue"
    ELSE IF e.msg.rl \/ e.status429 THEN "RATE_LIMIT_EXCEEDED"
    ELSE IF e.msg.cred THEN "INVALID_API_KEY"
    ELSE "continue"

\* Variants of the limiter's arithmetic, for checking that the properties
\* depend on it: the test reversed, and the time already elapsed taken for
\* the time still to wait.
MustWaitReversed(elapsed) == elapsed > MIN_INTERVAL
WaitTimeElapsed(elapsed)  == elapsed

\* if (elapsed < MIN_INTERVAL)
MustWait(elapsed) == elapsed < MIN_INTERVAL

\* waitTime = MIN_INTERVAL - elapsed
WaitTime(elapsed) == MIN_INTERVAL - elapsed

\* A variant that starts the remaining candidates together.
OutstandingAll(k) == k..Len(MODELS_TO_TRY)

\* The requests the loop has outstanding once iteration k has called
\* generateContent: the one of iteration k, awaited before anything else.
Outstanding(k) == {k}

\* ------------------------------------------------------------------------
\* State
\* ------------------------------------------------------------------------
VARIABLES
    now,              \* Date.now()
    lastRequestTime,  \* the module-level timestamp; 0 = no request yet
    pc,               \* where each invocation of analyzeImage stands
    timer,            \* when the setTimeout of a suspended invocation is due
    idx,              \* the loop's position in MODELS_TO_TRY
    outcome,          \* how the invocation settled
    result,           \* the value it returned
    \* history, kept for the properties
    prevRequestTime,  \* lastRequestTime before its latest write
    seen,             \* lastRequestTime as read when the wait was computed
    writes,           \* writes of lastRequestTime by this invocation
    tried,            \* the models generateContent was called on, in order
    inflight,         \* loop positions whose generateContent is unsettled
    onlyNotFound,     \* every failure so far was a rejected call carrying nf
    onlySoft          \* every failure so far was not-found, unparsable or
                      \* a parsed value lacking a required field

\* The screen (scanner.tsx) and the connectivity probe (testAPIConnection).
VARIABLES
    cameraRef,        \* cameraRef.current is set: the camera view is mounted
    loading,          \* the `loading` state of ScannerScreen
    shown,            \* `loading` as of the render on screen: what the
                      \* capture button and its onPress closure hold
    tp,               \* where each run of takePicture stands
    alerts,           \* the alerts each run has raised, in order
    displayed,        \* the `result` state of ScannerScreen; NoObject = null
    probePc,          \* where testAPIConnection stands
    probeIdx,         \* its position in MODELS_TO_TRY
    probeOut,         \* what it returned
    apiAlert,         \* the "API Error" alert the screen raised for it
    \* history, kept for the properties
    probeLog,         \* what each candidate it probed settled with
    lastCaught        \* what the catch block of analyzeImage last received

coreVars  == <<now, lastRequestTime, pc, timer, idx, outcome, result,
               prevRequestTime, seen, writes, tried, inflight, onlyNotFound,
               onlySoft>>
uiVars    == <<cameraRef, loading, shown, tp, alerts, displayed>>
probeVars == <<probePc, probeIdx, probeOut, probeLog>>

vars == <<coreVars, uiVars, probeVars, apiAlert, lastCaught>>

NumModels == Len(MODELS_TO_TRY)

\* String.prototype.includes on strings written as sequences of characters.
Includes(str, part) ==
    \E k \in 0..(Len(str) - Len(part)) :
        SubSeq(str, k + 1, k + Len(part)) = part

\* testAPIConnection has not returned.
NoProbeOut == [settled |-> FALSE, success |-> FALSE, model |-> "",
               error |-> << >>]

\* The screen has raised no "API Error" alert.
NoApiAlert == [raised |-> FALSE, text |-> << >>]

\* The catch block of analyzeImage has received nothing yet.
NothingCaught == [failed |-> FALSE, msg |-> NoSignals, status429 |-> FALSE]

\* The conditions of the properties of section 8, as the provider presents
\* them.
NotFound(r) == r.kind = "error" /\ r.msg.nf
Unusable(r) ==
    /\ r.kind = "text"
    /\ LET p == JSONParse(CleanText(r)) IN p.threw \/ p.isNull \/ ~IsValid(p.obj)
Soft(r) == NotFound(r) \/ Unusable(r)

Outcomes == {"none", "ok", "RATE_LIMIT_EXCEEDED", "INVALID_API_KEY",
             "ALL_MODELS_FAILED"}

TypeOK ==
    /\ now \in Epoch..MaxTime
    /\ lastRequestTime \in {0} \cup (Epoch..MaxTime)
    /\ prevRequestTime \in {0} \cup (Epoch..MaxTime)
    /\ pc \in [Calls -> {"idle", "wait", "ready", "call", "done"}]
    /\ timer \in [Calls -> 0..(MaxTime + MIN_INTERVAL)]
    /\ idx \in [Calls -> 0..NumModels]
    /\ outcome \in [Calls -> Outcomes]
    /\ result \in [Calls -> Objects \cup {NoObject}]
    /\ writes \in [Calls -> 0..1]
    /\ \A i \in Calls : Len(tried[i]) <= NumModels
    /\ cameraRef \in BOOLEAN /\ loading \in BOOLEAN /\ shown \in BOOLEAN
    /\ tp \in [Calls -> {"idle", "camera", "manip", "analyze", "ended"}]
    /\ \A i \in Calls : Len(alerts[i]) <= 1
    /\ displayed \in Objects \cup {NoObject}
    /\ probePc \in {"idle", "call", "done"}
    /\ probeIdx \in 0..NumModels
    /\ probeOut.settled \in BOOLEAN /\ probeOut.success \in BOOLEAN
    /\ apiAlert.raised \in BOOLEAN
    /\ Len(probeLog) <= NumModels
    /\ lastCaught.failed \in BOOLEAN

Init ==
    /\ now = Epoch
    /\ lastRequestTime = 0
    /\ prevRequestTime = 0
    /\ pc = [i \in Calls |-> "idle"]
    /\ timer = [i \in Calls |-> 0]
    /\ idx = [i \in Calls |-> 0]
    /\ outcome = [i \in Calls |-> "none"]
    /\ result = [i \in Calls |-> NoObject]
    /\ seen = [i \in Calls |-> 0]
    /\ writes = [i \in Calls |-> 0]
    /\ tried = [i \in Calls |-> << >>]
    /\ inflight = [i \in Calls |-> {}]
    /\ onlyNotFound = [i \in Calls |-> TRUE]
    /\ onlySoft = [i \in Calls |-> TRUE]
    /\ cameraRef = FALSE
    /\ loading = FALSE
    /\ shown = FALSE
    /\ tp = [i \in Calls |-> "idle"]
    /\ alerts = [i \in Calls |-> << >>]
    /\ displayed = NoObject
    /\ probePc = "idle"
    /\ probeIdx = 0
    /\ probeOut = NoProbeOut
    /\ apiAlert = NoApiAlert
    /\ probeLog = << >>
    /\ lastCaught = NothingCaught

\* ------------------------------------------------------------------------
\* waitForRateLimit
\* ------------------------------------------------------------------------
\* A variant of the entry of analyzeImage that does not call the limiter.
InvokeUnpaced(i) ==
    /\ pc[i] = "idle"
    /\ now + MIN_INTERVAL <= MaxTime
    /\ pc' = [pc EXCEPT ![i] = "ready"]
    /\ UNCHANGED <<now, lastRequestTime, prevRequestTime, timer, idx, outcome,
                   result, seen, writes, tried, inflight, onlyNotFound,
                   onlySoft>>

\* analyzeImage is called; waitForRateLimit runs up to its await, or, with
\* nothing to wait for, to its end.
Invoke(i) ==
    /\ pc[i] = "idle"
    /\ now + MIN_INTERVAL <= MaxTime
    /\ LET elapsed == now - lastRequestTime IN
       IF MustWait(elapsed)
       THEN /\ pc' = [pc EXCEPT ![i] = "wait"]
            /\ timer' = [timer EXCEPT ![i] = now + WaitTime(elapsed)]
            /\ seen' = [seen EXCEPT ![i] = lastRequestTime]
            /\ UNCHANGED <<lastRequestTime, prevRequestTime, writes>>
       ELSE /\ pc' = [pc EXCEPT ![i] = "ready"]
            /\ lastRequestTime' = now
            /\ prevRequestTime' = lastRequestTime
            /\ writes' = [writes EXCEPT ![i] = @ + 1]
            /\ UNCHANGED <<timer, seen>>
    /\ UNCHANGED <<now, idx, outcome, result, tried, inflight,
                   onlyNotFound, onlySoft>>

\* The timer fires, no earlier than it is due, and waitForRateLimit records
\* the time and returns.
TimerFires(i) ==
    /\ pc[i] = "wait"
    /\ now >= timer[i]
    /\ pc' = [pc EXCEPT ![i] = "ready"]
    /\ lastRequestTime' = now
    /\ prevRequestTime' = lastRequestTime
    /\ writes' = [writes EXCEPT ![i] = @ + 1]
    /\ timer' = [timer EXCEPT ![i] = 0]
    /\ seen' = [seen EXCEPT ![i] = 0]
    /\ UNCHANGED <<now, idx, outcome, result, tried, inflight,
                   onlyNotFound, onlySoft>>

\* ------------------------------------------------------------------------
\* analyzeImage
\* ------------------------------------------------------------------------
\* The loop reaches iteration k and calls generateContent on model k.
\* A variant that calls the candidate that has just failed once more.
CallRetry(i, k) ==
    /\ idx' = [idx EXCEPT ![i] = k]
    /\ tried' = [tried EXCEPT
                   ![i] = Append(@, MODELS_TO_TRY[IF k > 1 THEN k - 1 ELSE k])]
    /\ pc' = [pc EXCEPT ![i] = "call"]

Call(i, k) ==
    /\ idx' = [idx EXCEPT ![i] = k]
    /\ tried' = [tried EXCEPT ![i] = Append(@, MODELS_TO_TRY[k])]
    /\ pc' = [pc EXCEPT ![i] = "call"]

\* analyzeImage resumes after `await waitForRateLimit()` and enters the loop.
EnterLoop(i) ==
    /\ pc[i] = "ready"
    /\ Call(i, 1)
    /\ inflight' = [inflight EXCEPT ![i] = @ \cup Outstanding(1)]
    /\ UNCHANGED <<now, lastRequestTime, prevRequestTime, timer, outcome,
                   result, seen, writes, onlyNotFound, onlySoft>>

\* The call of iteration idx[i] settles with r: the rest of the try block,
\* the catch block, and the loop up to its next await or to the function's
\* end.
Settle(i, r) ==
    /\ pc[i] = "call"
    /\ idx[i] \in inflight[i]
    /\ LET k == idx[i]
           t == TryBlock(r)
           c == Classify(t.error)
       IN
       IF t.returns
       THEN /\ pc' = [pc EXCEPT ![i] = "done"]
            /\ outcome' = [outcome EXCEPT ![i] = "ok"]
            /\ result' = [result EXCEPT ![i] = t.value]
            /\ inflight' = [inflight EXCEPT ![i] = @ \ {k}]
            /\ UNCHANGED <<idx, tried, onlyNotFound, onlySoft>>
       ELSE /\ onlyNotFound' = [onlyNotFound EXCEPT ![i] = @ /\ NotFound(r)]
            /\ onlySoft' = [onlySoft EXCEPT ![i] = @ /\ Soft(r)]
            /\ UNCHANGED result
            /\ IF c # "continue"
               THEN /\ pc' = [pc EXCEPT ![i] = "done"]
                    /\ outcome' = [outcome EXCEPT ![i] = c]
                    /\ inflight' = [inflight EXCEPT ![i] = @ \ {k}]
                    /\ UNCHANGED <<idx, tried>>
               ELSE IF k < NumModels
               THEN /\ Call(i, k + 1)
                    /\ inflight' = [inflight EXCEPT
                                      ![i] = (@ \ {k}) \cup Outstanding(k + 1)]
                    /\ UNCHANGED outcome
               ELSE /\ pc' = [pc EXCEPT ![i] = "done"]
                    /\ outcome' = [outcome EXCEPT ![i] = "ALL_MODELS_FAILED"]
                    /\ inflight' = [inflight EXCEPT ![i] = @ \ {k}]
                    /\ UNCHANGED <<idx, tried>>
    /\ UNCHANGED <<now, lastRequestTime, prevRequestTime, timer, seen, writes>>

\* The caller takes the settled promise; the slot is free for a new call.
Finish(i) ==
    /\ pc[i] = "done"
    /\ pc' = [pc EXCEPT ![i] = "idle"]
    /\ timer' = [timer EXCEPT ![i] = 0]
    /\ idx' = [idx EXCEPT ![i] = 0]
    /\ outcome' = [outcome EXCEPT ![i] = "none"]
    /\ result' = [result EXCEPT ![i] = NoObject]
    /\ seen' = [seen EXCEPT ![i] = 0]
    /\ writes' = [writes EXCEPT ![i] = 0]
    /\ tried' = [tried EXCEPT ![i] = << >>]
    /\ inflight' = [inflight EXCEPT ![i] = {}]
    /\ onlyNotFound' = [onlyNotFound EXCEPT ![i] = TRUE]
    /\ onlySoft' = [onlySoft EXCEPT ![i] = TRUE]
    /\ UNCHANGED <<now, lastRequestTime, prevRequestTime>>

\* Time passes.
Tick ==
    /\ now < MaxTime
    /\ now' = IF now + TickMs > MaxTime THEN MaxTime ELSE now + TickMs
    /\ UNCHANGED <<lastRequestTime, prevRequestTime, pc, timer, idx, outcome,
                   result, seen, writes, tried, inflight, onlyNotFound, onlySoft>>

\* The service on its own: analyzeImage called by any caller, the screen
\* and the probe left out.
ServiceOnly == UNCHANGED <<uiVars, probeVars, apiAlert, lastCaught>>

Next ==
    \/ \E i \in Calls : Invoke(i) /\ ServiceOnly
    \/ \E i \in Calls : TimerFires(i) /\ ServiceOnly
    \/ \E i \in Calls : EnterLoop(i) /\ ServiceOnly
    \/ \E i \in Calls : \E r \in Responses : Settle(i, r) /\ ServiceOnly
    \/ \E i \in Calls : Finish(i) /\ ServiceOnly
    \/ Tick /\ ServiceOnly

Spec == Init /\ [][Next]_vars

\* ------------------------------------------------------------------------
\* Properties of the fallback loop
\* ------------------------------------------------------------------------
\* What the catch block receives when the call of an iteration settles
\* with r without the try block returning.
Fails(r)  == ~TryBlock(r).returns
Caught(r) == TryBlock(r).error
RateLimitSignal(r)  == Fails(r) /\ (Caught(r).msg.rl \/ Caught(r).status429)
CredentialSignal(r) == Fails(r) /\ Caught(r).msg.cred

\* A valid structured response, as section 6 describes it: a JSON object,
\* bare or in a ```json fence, whose word, meaning and sentence are
\* non-empty strings.
ValidResponse(r) ==
    /\ r.kind = "text"
    /\ r.shape = "object"
    /\ r.fence \in {"none", "json"}
    /\ r.obj.word \notin Falsy
    /\ r.obj.meaning \notin Falsy
    /\ r.obj.sentence \notin Falsy

\* C1: whenever attempt k of an invocation fails with an error that carries
\* a rate-limit signal ("429" in the message, or status 429), the invocation
\* throws RATE_LIMIT_EXCEEDED and has made exactly k remote attempts.
C1_RateLimitAborts ==
    [][\A i \in Calls : \A r \in Responses :
          (RateLimitSignal(r) /\ Settle(i, r))
              => /\ pc'[i] = "done"
                 /\ outcome'[i] = "RATE_LIMIT_EXCEEDED"
                 /\ Len(tried'[i]) = idx[i]]_vars

\* C2: whenever attempt k of an invocation fails with an error that carries
\* a credential signal ("API_KEY" or "invalid" in the message), the
\* invocation throws INVALID_API_KEY and has made exactly k remote attempts.
C2_InvalidKeyAborts ==
    [][\A i \in Calls : \A r \in Responses :
          (CredentialSignal(r) /\ Settle(i, r))
              => /\ pc'[i] = "done"
                 /\ outcome'[i] = "INVALID_API_KEY"
                 /\ Len(tried'[i]) = idx[i]]_vars

\* C3: when the first N candidates each failed with a not-found error and
\* candidate N+1 answers with a valid structured response, the invocation
\* returns the object of that response, having called exactly the first N+1
\* models, and calls no other.
C3_FirstValidAfterNotFound ==
    [][\A i \in Calls : \A r \in Responses :
          (onlyNotFound[i] /\ ValidResponse(r) /\ Settle(i, r))
              => /\ pc'[i] = "done"
                 /\ outcome'[i] = "ok"
                 /\ result'[i] = r.obj
                 /\ tried'[i] = SubSeq(MODELS_TO_TRY, 1, idx[i])
                 /\ inflight'[i] = {}]_vars

\* C3 witness: an invocation has returned the second candidate's result
\* after the first one failed with not-found (N = 1).
C3_Witness ==
    \E i \in Calls :
        /\ pc[i] = "done" /\ outcome[i] = "ok" /\ onlyNotFound[i]
        /\ Len(tried[i]) = 2 /\ result[i].word = "Pear"

\* C4: an invocation all of whose candidates failed with not-found, returned
\* unparsable text or returned a value lacking a required field has thrown
\* ALL_MODELS_FAILED after one attempt on each of the candidates.
C4_AllSoftFailuresExhaust ==
    \A i \in Calls :
        (pc[i] = "done" /\ outcome[i] # "ok" /\ onlySoft[i])
            => /\ outcome[i] = "ALL_MODELS_FAILED"
               /\ tried[i] = MODELS_TO_TRY

\* C5: a result that analyzeImage returned has non-empty word, meaning and
\* sentence.
C5_ReturnedResultComplete ==
    \A i \in Calls :
        outcome[i] = "ok"
            => /\ result[i].word \notin Falsy
               /\ result[i].meaning \notin Falsy
               /\ result[i].sentence \notin Falsy

\* C5 witness: an invocation has returned a result after an earlier
\* candidate answered with unusable text or an incomplete object.
C5_Witness ==
    \E i \in Calls :
        /\ pc[i] = "done" /\ outcome[i] = "ok"
        /\ onlySoft[i] /\ ~onlyNotFound[i]

\* ------------------------------------------------------------------------
\* Serialized callers: waitForRateLimit is entered only when no other
\* invocation is suspended in it.
\* ------------------------------------------------------------------------
InvokeSerial(i) ==
    /\ \A j \in Calls : pc[j] # "wait"
    /\ Invoke(i)

NextSerial ==
    \/ \E i \in Calls : InvokeSerial(i) /\ ServiceOnly
    \/ \E i \in Calls : TimerFires(i) /\ ServiceOnly
    \/ \E i \in Calls : EnterLoop(i) /\ ServiceOnly
    \/ \E i \in Calls : \E r \in Responses : Settle(i, r) /\ ServiceOnly
    \/ \E i \in Calls : Finish(i) /\ ServiceOnly
    \/ Tick /\ ServiceOnly

SpecSerial == Init /\ [][NextSerial]_vars

\* ------------------------------------------------------------------------
\* Fairness: time passes, a due timer fires, a resumed function runs on, and
\* every remote call settles.
\* ------------------------------------------------------------------------
Fairness ==
    /\ WF_vars(Tick /\ ServiceOnly)
    /\ \A i \in Calls : WF_vars(TimerFires(i) /\ ServiceOnly)
    /\ \A i \in Calls : WF_vars(EnterLoop(i) /\ ServiceOnly)
    /\ \A i \in Calls :
          WF_vars(\E r \in Responses : Settle(i, r) /\ ServiceOnly)

FairSpec == Init /\ [][Next]_vars /\ Fairness

\* ------------------------------------------------------------------------
\* Properties of the rate limiter and of the sequencing
\* ------------------------------------------------------------------------
\* C6: with serialized callers, each dispatch time that waitForRateLimit
\* records is at least MIN_INTERVAL after the one recorded before it.
C6_SerializedSpacing ==
    prevRequestTime # 0 => lastRequestTime - prevRequestTime >= MIN_INTERVAL

\* C6 witness: a second acquire has just returned, having recorded its
\* dispatch within one clock tick of the earliest time allowed after the
\* dispatch recorded before it.
C6_Witness ==
    /\ prevRequestTime # 0
    /\ lastRequestTime = now
    /\ lastRequestTime - prevRequestTime < MIN_INTERVAL + TickMs
    /\ \E i \in Calls : pc[i] = "ready" /\ writes[i] = 1

\* C7: every invocation of analyzeImage settles, and settles in one of four
\* ways: a non-null result, RATE_LIMIT_EXCEEDED, INVALID_API_KEY or
\* ALL_MODELS_FAILED.
FourOutcomes(i) ==
    \/ outcome[i] = "ok" /\ result[i] # NoObject
    \/ outcome[i] \in {"RATE_LIMIT_EXCEEDED", "INVALID_API_KEY",
                       "ALL_MODELS_FAILED"}

C7_AlwaysSettles ==
    \A i \in Calls :
        [](pc[i] \in {"wait", "ready", "call"}
              => <>(pc[i] = "done" /\ FourOutcomes(i)))

\* C7 witness: after a timer wait has taken place, an invocation that met a
\* provider error outside the three categories has settled, with
\* ALL_MODELS_FAILED.
C7_Witness ==
    \E i \in Calls :
        /\ pc[i] = "done" /\ outcome[i] = "ALL_MODELS_FAILED"
        /\ ~onlySoft[i]
        /\ lastRequestTime >= Epoch + MIN_INTERVAL

\* C8: every dispatch time that waitForRateLimit records, whatever the
\* interleaving of invocations, is at least MIN_INTERVAL after the most
\* recent one recorded.
C8_SpacingUnderOverlap ==
    [][\A i \in Calls :
          (writes'[i] > writes[i] /\ lastRequestTime # 0)
              => lastRequestTime' - lastRequestTime >= MIN_INTERVAL]_vars

\* C8 as amended: a dispatch time that waitForRateLimit records is at least
\* MIN_INTERVAL after the most recent one recorded, provided the timestamp
\* still holds what this invocation read when it computed its wait.
C8_SpacingWhenUndisturbed ==
    [][\A i \in Calls :
          (/\ writes'[i] > writes[i]
           /\ lastRequestTime # 0
           /\ pc[i] = "wait" => lastRequestTime = seen[i])
              => lastRequestTime' - lastRequestTime >= MIN_INTERVAL]_vars

\* C8 witness: with two invocations overlapping in the limiter, one has
\* just returned from its wait and recorded a dispatch time MIN_INTERVAL or
\* more after the one before, while the other is still suspended on the
\* timestamp that has now been overwritten.
C8_Witness ==
    \E i, j \in Calls :
        /\ pc[i] = "ready" /\ writes[i] = 1
        /\ lastRequestTime = now
        /\ prevRequestTime # 0
        /\ lastRequestTime - prevRequestTime >= MIN_INTERVAL
        /\ pc[j] = "wait" /\ seen[j] = prevRequestTime

\* C9: every remote attempt is preceded by its own write of the timestamp,
\* so an invocation has written it at least as often as it has called
\* generateContent.
C9_WriteBeforeEachAttempt ==
    \A i \in Calls : writes[i] >= Len(tried[i])

\* C9 as amended: an invocation writes the timestamp once, to the current
\* time, when its wait returns and before its first remote attempt; the
\* fallback attempts are made with no further write.
C9_WriteOncePerInvocation ==
    [][\A i \in Calls :
          /\ writes'[i] > writes[i]
                => /\ lastRequestTime' = now
                   /\ writes[i] = 0 /\ writes'[i] = 1
                   /\ tried[i] = << >>
          /\ Len(tried'[i]) > Len(tried[i])
                => writes[i] = 1 /\ writes'[i] = 1]_vars

\* C9 witness: an invocation is on its third attempt, having written the
\* timestamp once.
C9_Witness ==
    \E i \in Calls : Len(tried[i]) = 3 /\ writes[i] = 1 /\ pc[i] = "call"

\* C10: within an invocation the wait has returned before the first remote
\* attempt, at most one attempt is outstanding, the models attempted are a
\* prefix of MODELS_TO_TRY, and a further attempt is made only when the one
\* before has settled with a failure.
C10_State ==
    \A i \in Calls :
        /\ Cardinality(inflight[i]) <= 1
        /\ Len(tried[i]) <= Len(MODELS_TO_TRY)
        /\ tried[i] = SubSeq(MODELS_TO_TRY, 1, Len(tried[i]))
        /\ pc[i] \in {"idle", "wait"} => tried[i] = << >>
        /\ tried[i] # << >> => writes[i] >= 1

C10_Step ==
    \A i \in Calls :
        (Len(tried'[i]) > Len(tried[i]) /\ tried[i] # << >>)
            => /\ inflight[i] = {Len(tried[i])}
               /\ inflight'[i] = {Len(tried'[i])}
               /\ outcome'[i] = "none"
               /\ result'[i] = NoObject

C10_SequentialPrefix == []C10_State /\ [][C10_Step]_vars

\* C10 witness: the third candidate's call is the only one outstanding.
C10_Witness ==
    \E i \in Calls : inflight[i] = {3} /\ tried[i] = MODELS_TO_TRY

\* ---------------------------------------------------------------------------
\* Malformed responses and the number of attempts

\* C11: whenever a candidate's call resolves with text that does not parse,
\* or that parses to a value lacking word, meaning or sentence, that step of
\* the invocation does not throw RATE_LIMIT_EXCEEDED or INVALID_API_KEY: it
\* calls the next candidate, or throws ALL_MODELS_FAILED after the last.
C11_MalformedNeverTerminal ==
    [][\A i \in Calls : \A r \in Responses :
          (Unusable(r) /\ Settle(i, r))
              => /\ outcome'[i] \notin {"RATE_LIMIT_EXCEEDED", "INVALID_API_KEY"}
                 /\ IF idx[i] < NumModels
                    THEN pc'[i] = "call" /\ idx'[i] = idx[i] + 1
                    ELSE outcome'[i] = "ALL_MODELS_FAILED"]_vars

\* C13: the models an invocation has called are pairwise different, so they
\* are never more than the candidates.
C13_NoModelTwice ==
    \A i \in Calls :
        /\ \A a, b \in 1..Len(tried[i]) : a # b => tried[i][a] # tried[i][b]
        /\ Len(tried[i]) <= NumModels

\* C13 witness: an invocation has gone through the whole list, the second
\* and third candidate called after the one before had failed.
C13_Witness ==
    \E i \in Calls :
        /\ pc[i] = "done" /\ outcome[i] = "ALL_MODELS_FAILED"
        /\ Len(tried[i]) = NumModels

\* ---------------------------------------------------------------------------
\* The order of the tests in the catch block

\* Settle, keeping the error that the catch block received.
SettleLogged(i, r) ==
    /\ Settle(i, r)
    /\ lastCaught' = IF Fails(r)
                     THEN [failed |-> TRUE, msg |-> Caught(r).msg,
                           status429 |-> Caught(r).status429]
                     ELSE NothingCaught
    /\ UNCHANGED <<uiVars, probeVars, apiAlert>>

FinishLogged(i) ==
    /\ Finish(i)
    /\ lastCaught' = NothingCaught
    /\ UNCHANGED <<uiVars, probeVars, apiAlert>>

\* One invocation at a time, from one caller.
NextClassify ==
    \/ \E i \in {1} : Invoke(i) /\ ServiceOnly
    \/ \E i \in {1} : TimerFires(i) /\ ServiceOnly
    \/ \E i \in {1} : EnterLoop(i) /\ ServiceOnly
    \/ \E i \in {1} : \E r \in Responses : SettleLogged(i, r)
    \/ \E i \in {1} : FinishLogged(i)
    \/ Tick /\ ServiceOnly

SpecClassify == Init /\ [][NextClassify]_vars

\* What the step of a failed attempt does when it goes on: the next
\* candidate is called, or ALL_MODELS_FAILED is thrown after the last.
Advances(i) ==
    IF idx[i] < NumModels
    THEN pc'[i] = "call" /\ idx'[i] = idx[i] + 1 /\ outcome'[i] = "none"
    ELSE pc'[i] = "done" /\ outcome'[i] = "ALL_MODELS_FAILED"

ProbeMessages ==
    { << >>,
      <<"[", "4", "0", "4", "]">>,
      <<"n", "o", "t", " ", "f", "o", "u", "n", "d">>,
      <<"4", "2", "9">>,
      <<"i", "n", " ", "1", "4", "0", "4", " ", "m", "s">> }

\* Texts a probe call can resolve with: {"status":"ok"} cut down to "ok",
\* "OK", "token" and "no".
ProbeTexts ==
    { <<"o", "k">>, <<"O", "K">>, <<"t", "o", "k", "e", "n">>, <<"n", "o">> }

ProbeResponses ==
    { [kind |-> "error", str |-> m] : m \in ProbeMessages }
        \cup { [kind |-> "text", str |-> t] : t \in ProbeTexts }

\* "No working model found"
NoWorkingModel ==
    <<"N", "o", " ", "w", "o", "r", "k", "i", "n", "g", " ", "m", "o", "d",
      "e", "l", " ", "f", "o", "u", "n", "d">>

\* A variant of the acknowledgement test that ignores case.
AcknowledgesAnyCase(text) ==
    Includes(text, <<"o", "k">>) \/ Includes(text, <<"O", "K">>)

\* text.includes("ok")
Acknowledges(text) == Includes(text, <<"o", "k">>)

\* error.message?.includes("404"): undefined, so false, without a message
Skippable(message) == Includes(message, <<"4", "0", "4">>)

\* The component's effect calls testAPIConnection; the loop issues its first
\* generateContent.
ProbeStart ==
    /\ probePc = "idle"
    /\ probePc' = "call"
    /\ probeIdx' = 1
    /\ UNCHANGED <<probeOut, probeLog>>

\* The loop of testAPIConnection goes to its next iteration, or falls out
\* of the loop after the last candidate.
ProbeAdvance ==
    IF probeIdx < NumModels
    THEN /\ probeIdx' = probeIdx + 1
         /\ UNCHANGED <<probePc, probeOut>>
    ELSE /\ probePc' = "done"
         /\ probeOut' = [settled |-> TRUE, success |-> FALSE, model |-> "",
                         error |-> NoWorkingModel]
         /\ UNCHANGED probeIdx

\* The call for candidate probeIdx settles with r.
ProbeSettle(r) ==
    /\ probePc = "call"
    /\ probeLog' = Append(probeLog, r)
    /\ IF r.kind = "text"
       THEN IF Acknowledges(r.str)
            THEN /\ probePc' = "done"
                 /\ probeOut' = [settled |-> TRUE, success |-> TRUE,
                                 model |-> MODELS_TO_TRY[probeIdx],
                                 error |-> << >>]
                 /\ UNCHANGED probeIdx
            ELSE ProbeAdvance
       ELSE IF Skippable(r.str)
            THEN ProbeAdvance
            ELSE /\ probePc' = "done"
                 /\ probeOut' = [settled |-> TRUE, success |-> FALSE,
                                 model |-> "", error |-> r.str]
                 /\ UNCHANGED probeIdx

\* The caller has taken the result; the screen is mounted anew later.
ProbeReturn ==
    /\ probePc = "done"
    /\ probePc' = "idle"
    /\ probeIdx' = 0
    /\ probeOut' = NoProbeOut
    /\ probeLog' = << >>

ProbeOnly == UNCHANGED <<coreVars, uiVars, apiAlert, lastCaught>>

NextProbe ==
    \/ ProbeStart /\ ProbeOnly
    \/ \E r \in ProbeResponses : ProbeSettle(r) /\ ProbeOnly
    \/ ProbeReturn /\ ProbeOnly

SpecProbe == Init /\ [][NextProbe]_vars

\* The not-found signal as analyzeImage reads it: "404" or "not found" in
\* the message.
NotFoundMessage(message) ==
    \/ Includes(message, <<"4", "0", "4">>)
    \/ Includes(message, <<"n", "o", "t", " ", "f", "o", "u", "n", "d">>)

\* The probe goes on after candidate probeIdx: the next candidate is probed,
\* or the probe returns "No working model found" after the last.
ProbeGoesOn ==
    IF probeIdx < NumModels
    THEN probePc' = "call" /\ probeIdx' = probeIdx + 1
    ELSE /\ probePc' = "done" /\ ~probeOut'.success
         /\ probeOut'.error = NoWorkingModel

\* C14: when a probe call is rejected with a not-found error the probe goes
\* on to the next candidate; when it is rejected with any other error the
\* probe returns at once a failure that carries the message of that error,
\* and probes no further candidate.
C14_ProbeSkipsNotFoundStopsOnOther ==
    [][\A r \in ProbeResponses :
          (r.kind = "error" /\ ProbeSettle(r))
              => IF NotFoundMessage(r.str)
                 THEN ProbeGoesOn
                 ELSE /\ probePc' = "done" /\ probeIdx' = probeIdx
                      /\ ~probeOut'.success
                      /\ probeOut'.error = r.str]_vars

\* C19: while the probe runs, every candidate before the current one either
\* was rejected with a "404" error or answered without "ok"; when it has
\* returned, it reports success exactly if the last candidate probed
\* answered with "ok" in its text, and then names that candidate; and it
\* reports "No working model found" exactly if the last of the candidates
\* was passed over in the same way.
C19_ProbeFirstAcknowledging ==
    LET n == Len(probeLog)
        HasToken(r) == r.kind = "text" /\ Includes(r.str, <<"o", "k">>)
        Passed(r)   == \/ r.kind = "error" /\ Includes(r.str, <<"4", "0", "4">>)
                       \/ r.kind = "text" /\ ~Includes(r.str, <<"o", "k">>)
    IN
    /\ probePc = "call"
          => n = probeIdx - 1 /\ \A j \in 1..n : Passed(probeLog[j])
    /\ probePc = "done"
          => /\ \A j \in 1..(n - 1) : Passed(probeLog[j])
             /\ probeOut.settled
             /\ probeOut.success <=> HasToken(probeLog[n])
             /\ probeOut.success => probeOut.model = MODELS_TO_TRY[n]
             /\ (~probeOut.success /\ probeOut.error = NoWorkingModel)
                    <=> (n = NumModels /\ Passed(probeLog[n]))

\* C19 witness: the probe reports the third candidate, after one candidate
\* that was rejected with "404" and one that answered without "ok".
C19_Witness ==
    /\ probePc = "done" /\ probeOut.success
    /\ probeOut.model = MODELS_TO_TRY[3]
    /\ \E j \in 1..2 : probeLog[j].kind = "text"
    /\ \E j \in 1..2 : probeLog[j].kind = "error"

\* ---------------------------------------------------------------------------
\* ScannerScreen: takePicture

\* What the analysis calls of a capture settle with: a rejected call that
\* carries at most one of the three signals, or a complete object.
ScreenResponses ==
    { r \in ErrorResponses :
        /\ ~r.status429
        /\ ~(r.msg.nf /\ r.msg.rl) /\ ~(r.msg.nf /\ r.msg.cred)
        /\ ~(r.msg.rl /\ r.msg.cred) }
    \cup { r \in ObjectResponses : r.obj = Apple }

\* How takePictureAsync and manipulateAsync settle.  A rejection carries a
\* message, or none ("").
CameraError == "Camera is not ready"
ManipError  == "Could not load the image"
TypeErrorUri == "Cannot read property 'uri' of undefined"
CameraSettlements == {"photo", "undefined", CameraError, ""}
ManipSettlements  == {"base64", "no base64", ManipError, ""}

\* A variant of the catch block that reports every error as unknown.
AlertForUnknown(message) ==
    [title |-> "Loi khong xac dinh",
     text  |-> IF message # "" THEN message
               ELSE "Khong the chup/phan tich anh"]

\* The catch block of takePicture: the alert for an error with this
\* message.  The long texts are cut to their first line, and all texts are
\* written without their diacritics.
AlertFor(message) ==
    IF message = "RATE_LIMIT_EXCEEDED"
    THEN [title |-> "Vuot qua gioi han",
          text  |-> "Ban da dung het luot mien phi (15 requests/phut)."]
    ELSE IF message = "INVALID_API_KEY"
    THEN [title |-> "API Key khong hop le", text |-> "Vui long:"]
    ELSE IF message = "ALL_MODELS_FAILED"
    THEN [title |-> "Khong the ket noi AI",
          text  |-> "Tat ca models deu that bai."]
    ELSE [title |-> "Loi khong xac dinh",
          text  |-> IF message # "" THEN message
                    ELSE "Khong the chup/phan tich anh"]

\* A variant of the finally block that leaves `loading` as it is.
FinallyMissing(i) ==
    /\ tp' = [tp EXCEPT ![i] = "ended"]
    /\ UNCHANGED loading

\* finally { setLoading(false) }, and the run is over.
Finally(i) ==
    /\ tp' = [tp EXCEPT ![i] = "ended"]
    /\ loading' = FALSE

\* An error thrown in the try block of run i: catch, then finally.
Catch(i, message) ==
    /\ alerts' = [alerts EXCEPT ![i] = Append(@, AlertFor(message))]
    /\ Finally(i)
    /\ UNCHANGED <<cameraRef, shown, displayed>>

\* The camera view is mounted and the ref attached.
Mount ==
    /\ ~cameraRef
    /\ cameraRef' = TRUE
    /\ UNCHANGED <<loading, shown, tp, alerts, displayed>>

\* React commits a render: the button and its onPress closure get the
\* current `loading`.
Render ==
    /\ shown # loading
    /\ shown' = loading
    /\ UNCHANGED <<cameraRef, loading, tp, alerts, displayed>>

\* A variant of the press that waits for the probe to report success.
PressGated(i) ==
    /\ tp[i] = "idle" /\ pc[i] = "idle"
    /\ ~shown
    /\ cameraRef /\ ~shown /\ probeOut.success
    /\ loading' = TRUE
    /\ tp' = [tp EXCEPT ![i] = "camera"]
    /\ UNCHANGED <<cameraRef, shown, alerts, displayed>>

\* A press of the capture button starts run i of takePicture.  The button
\* is enabled as rendered (disabled={loading}), and the guard reads
\* `loading` from the closure of that render.
Press(i) ==
    /\ tp[i] = "idle" /\ pc[i] = "idle"
    /\ ~shown
    /\ cameraRef /\ ~shown
    /\ loading' = TRUE
    /\ tp' = [tp EXCEPT ![i] = "camera"]
    /\ UNCHANGED <<cameraRef, shown, alerts, displayed>>

\* takePictureAsync of run i settles: with a photo, with undefined (reading
\* photo.uri then throws a TypeError), or with a rejection.
CameraSettles(i, c) ==
    /\ tp[i] = "camera"
    /\ IF c = "photo"
       THEN /\ tp' = [tp EXCEPT ![i] = "manip"]
            /\ UNCHANGED <<cameraRef, loading, shown, alerts, displayed>>
       ELSE Catch(i, IF c = "undefined" THEN TypeErrorUri ELSE c)
    /\ UNCHANGED coreVars

\* manipulateAsync of run i settles: with base64 data, and analyzeImage is
\* called and runs up to its first await; without base64; or with a
\* rejection.
ManipSettles(i, m) ==
    /\ tp[i] = "manip"
    /\ IF m = "base64"
       THEN /\ Invoke(i)
            /\ tp' = [tp EXCEPT ![i] = "analyze"]
            /\ UNCHANGED <<cameraRef, loading, shown, alerts, displayed>>
       ELSE /\ Catch(i, IF m = "no base64" THEN "Khong the xu ly anh" ELSE m)
            /\ UNCHANGED coreVars

\* analyzeImage of run i has settled and takePicture resumes: setResult or
\* the alert, then finally.
Resume(i) ==
    /\ tp[i] = "analyze"
    /\ Finish(i)
    /\ IF outcome[i] = "ok"
       THEN IF result[i] # NoObject
            THEN /\ displayed' = result[i]
                 /\ Finally(i)
                 /\ UNCHANGED <<cameraRef, shown, alerts>>
            ELSE /\ alerts' = [alerts EXCEPT ![i] = Append(@,
                                 [title |-> "Loi",
                                  text  |-> "AI khong tra ve ket qua hop le"])]
                 /\ Finally(i)
                 /\ UNCHANGED <<cameraRef, shown, displayed>>
       ELSE Catch(i, outcome[i])

\* The promise of run i is dropped.
End(i) ==
    /\ tp[i] = "ended"
    /\ tp' = [tp EXCEPT ![i] = "idle"]
    /\ alerts' = [alerts EXCEPT ![i] = << >>]
    /\ UNCHANGED <<cameraRef, loading, shown, displayed>>
    /\ UNCHANGED coreVars

\* The button of the result card: setResult(null).
Dismiss ==
    /\ displayed # NoObject
    /\ displayed' = NoObject
    /\ UNCHANGED <<cameraRef, loading, shown, tp, alerts>>
    /\ UNCHANGED coreVars

NoProbe == UNCHANGED <<probeVars, apiAlert, lastCaught>>

NextScanner ==
    \/ Mount /\ UNCHANGED coreVars /\ NoProbe
    \/ Render /\ UNCHANGED coreVars /\ NoProbe
    \/ \E i \in Calls : Press(i) /\ UNCHANGED coreVars /\ NoProbe
    \/ \E i \in Calls : \E c \in CameraSettlements :
          CameraSettles(i, c) /\ NoProbe
    \/ \E i \in Calls : \E m \in ManipSettlements :
          ManipSettles(i, m) /\ NoProbe
    \/ \E i \in Calls : TimerFires(i) /\ ServiceOnly
    \/ \E i \in Calls : EnterLoop(i) /\ ServiceOnly
    \/ \E i \in Calls : \E r \in ScreenResponses : Settle(i, r) /\ ServiceOnly
    \/ \E i \in Calls : Resume(i) /\ NoProbe
    \/ \E i \in Calls : End(i) /\ NoProbe
    \/ Dismiss /\ NoProbe
    \/ Tick /\ ServiceOnly

SpecScanner == Init /\ [][NextScanner]_vars

\* C12: at most one analyzeImage invocation started by takePicture is in
\* flight at any time, and at most one run of takePicture is under way.
C12_OneAnalysisInFlight ==
    /\ Cardinality({i \in Calls : pc[i] # "idle"}) <= 1
    /\ Cardinality({i \in Calls : tp[i] \notin {"idle", "ended"}}) <= 1

\* The alert for an error that is none of the three terminal errors of
\* analyzeImage: the raw text of the error, or the stock text when the
\* error has none.
UnknownErrorAlert(message) ==
    [title |-> "Loi khong xac dinh",
     text  |-> IF message = "" THEN "Khong the chup/phan tich anh"
               ELSE message]

\* C15: a run of takePicture that fails raises exactly one alert and leaves
\* the displayed result alone: a failed camera or image step raises the
\* unknown-error alert with the text of the error, and each of
\* RATE_LIMIT_EXCEEDED, INVALID_API_KEY and ALL_MODELS_FAILED raises the
\* alert of its own title; a run whose analysis returned a result displays
\* that result and raises no alert.
C15_OneAlertPerError ==
    [][\A i \in Calls :
          /\ \A c \in CameraSettlements \ {"photo"} :
                CameraSettles(i, c)
                    => /\ alerts'[i] = << UnknownErrorAlert(
                              IF c = "undefined" THEN TypeErrorUri ELSE c) >>
                       /\ displayed' = displayed
          /\ \A m \in ManipSettlements \ {"base64"} :
                ManipSettles(i, m)
                    => /\ alerts'[i] = << UnknownErrorAlert(
                              IF m = "no base64" THEN "Khong the xu ly anh"
                              ELSE m) >>
                       /\ displayed' = displayed
          /\ Resume(i)
                => IF outcome[i] = "ok"
                   THEN displayed' = result[i] /\ alerts'[i] = << >>
                   ELSE /\ Len(alerts'[i]) = 1
                        /\ displayed' = displayed
                        /\ alerts'[i][1].title =
                             CASE outcome[i] = "RATE_LIMIT_EXCEEDED"
                                    -> "Vuot qua gioi han"
                               [] outcome[i] = "INVALID_API_KEY"
                                    -> "API Key khong hop le"
                               [] outcome[i] = "ALL_MODELS_FAILED"
                                    -> "Khong the ket noi AI"]_vars

\* C15 witness: a run has ended with the alert for an invalid API key.
C15_Witness ==
    \E i \in Calls :
        /\ tp[i] = "ended" /\ Len(alerts[i]) = 1
        /\ alerts[i][1].title = "API Key khong hop le"

\* The awaited operations settle, timers fire, the clock advances and React
\* renders; nothing obliges the user to press.
FairnessScanner ==
    /\ WF_vars(Tick /\ ServiceOnly)
    /\ WF_vars(Render /\ UNCHANGED coreVars /\ NoProbe)
    /\ \A i \in Calls :
          /\ WF_vars(\E c \in CameraSettlements : CameraSettles(i, c) /\ NoProbe)
          /\ WF_vars(\E m \in ManipSettlements : ManipSettles(i, m) /\ NoProbe)
          /\ WF_vars(TimerFires(i) /\ ServiceOnly)
          /\ WF_vars(EnterLoop(i) /\ ServiceOnly)
          /\ WF_vars(\E r \in ScreenResponses : Settle(i, r) /\ ServiceOnly)
          /\ WF_vars(Resume(i) /\ NoProbe)

FairScanner == Init /\ [][NextScanner]_vars /\ FairnessScanner

\* C18: every run of takePicture that has set loading to true reaches its
\* end; the step that ends it sets loading to false, on every path; and the
\* capture button is enabled again and again.
C18_LoadingReleased ==
    /\ \A i \in Calls :
          (tp[i] \in {"camera", "manip", "analyze"}) ~> (tp[i] = "ended")
    /\ [][\A i \in Calls :
            (tp[i] # "ended" /\ tp'[i] = "ended") => ~loading']_vars
    /\ []<>(~shown)

\* C18 witness: a run has ended after analyzeImage threw ALL_MODELS_FAILED,
\* and loading is false.
C18_Witness ==
    \E i \in Calls :
        /\ tp[i] = "ended" /\ ~loading
        /\ Len(alerts[i]) = 1 /\ alerts[i][1].title = "Khong the ket noi AI"

\* ---------------------------------------------------------------------------
\* ScannerScreen: the probe at mount and the captures after it

\* What the probe calls settle with on the screen: "ok", a "[404]" error or
\* a "429" error.
ScreenProbeResponses ==
    { r \in ProbeResponses :
        r.str \in { <<"o", "k">>, <<"[", "4", "0", "4", "]">>,
                    <<"4", "2", "9">> } }

\* The screen is mounted: the ref is attached and the effect calls
\* testAPIConnection.
MountScreen ==
    /\ Mount
    /\ ProbeStart
    /\ UNCHANGED <<coreVars, apiAlert, lastCaught>>

\* A probe call settles; when testAPIConnection returns with it, the then
\* callback of the effect raises the "API Error" alert for a failure.
ProbeSettleScreen(r) ==
    /\ ProbeSettle(r)
    /\ apiAlert' = IF probePc' = "done" /\ ~probeOut'.success
                   THEN [raised |-> TRUE, text |-> probeOut'.error]
                   ELSE apiAlert
    /\ UNCHANGED <<coreVars, uiVars, lastCaught>>

\* One run of takePicture at a time.
NextScreen ==
    \/ MountScreen
    \/ \E r \in ScreenProbeResponses : ProbeSettleScreen(r)
    \/ Render /\ UNCHANGED coreVars /\ NoProbe
    \/ \E i \in {1} : Press(i) /\ UNCHANGED coreVars /\ NoProbe
    \/ \E i \in {1} : \E c \in CameraSettlements : CameraSettles(i, c) /\ NoProbe
    \/ \E i \in {1} : \E m \in ManipSettlements : ManipSettles(i, m) /\ NoProbe
    \/ \E i \in {1} : TimerFires(i) /\ ServiceOnly
    \/ \E i \in {1} : EnterLoop(i) /\ ServiceOnly
    \/ \E i \in {1} : \E r \in ScreenResponses : Settle(i, r) /\ ServiceOnly
    \/ \E i \in {1} : Resume(i) /\ NoProbe
    \/ \E i \in {1} : End(i) /\ NoProbe
    \/ Dismiss /\ NoProbe
    \/ Tick /\ ServiceOnly

SpecScreen == Init /\ [][NextScreen]_vars

\* The capture button can start a run, and a run that has its image can
\* call analyzeImage (while the clock has room for its wait), in whatever
\* state the probe is.
C16_State ==
    /\ (cameraRef /\ ~shown /\ tp[1] = "idle")
          => ENABLED (Press(1) /\ UNCHANGED coreVars /\ NoProbe)
    /\ (tp[1] = "manip" /\ now + MIN_INTERVAL <= MaxTime)
          => ENABLED (ManipSettles(1, "base64") /\ NoProbe)

\* A step of the probe leaves the timestamp of the rate limiter, and the
\* rest of the state of analyzeImage, as they are; and what the probe does
\* with a settlement is the same whatever the timestamp is.
C16_Step ==
    \A r \in ScreenProbeResponses :
        ProbeSettleScreen(r)
            => /\ UNCHANGED <<lastRequestTime, prevRequestTime, pc, timer>>
               /\ probePc' = "done"
                     <=> \/ r.str = <<"o", "k">>
                         \/ r.str = <<"4", "2", "9">>
                         \/ probeIdx = NumModels

\* C16: the probe does not gate the analysis path, whatever it returned and
\* whether or not it has returned, and it never touches the timestamp of
\* the rate limiter.
C16_ProbeDoesNotGate == []C16_State /\ [][C16_Step]_vars

\* C16 witness: the probe has reported a failure and an analyzeImage
\* invocation started by a later press is calling a model.
C16_Witness ==
    /\ probeOut.settled /\ ~probeOut.success /\ apiAlert.raised
    /\ tp[1] = "analyze" /\ pc[1] = "call"

====
